---- MODULE Spec2Model ----
(***************************************************************************)
(* Room/session state machine and signaling relay of the streaming         *)
(* backend (src/index.js, the server with socketInstances and              *)
(* pendingSignals, lines 192-579).  One action per socket.io event         *)
(* handler; every handler runs to completion (single-threaded event loop). *)
(***************************************************************************)
EXTENDS Integers, Sequences, FiniteSets, TLC

\* ---- bounds of the model ------------------------------------------------
MaxSockets == 3        \* connections ever opened in one run
NumCustomIds == 2      \* distinct custom ids clients identify with
NumRooms == 2          \* distinct room ids clients use
MaxSignals == 2        \* offer/answer/ice-candidate events sent in one run
MaxMessages == 1       \* send-message events accepted in one run
MaxEvents == 6         \* events dispatched in one run

\* ---- program constant ---------------------------------------------------
MAX_VIEWERS == 10

\* ---- identifiers --------------------------------------------------------
\* socket.id values, handed out in increasing order, never reused
SocketIds == 1..MaxSockets
\* socket.id values of connections that were closed before the run starts
\* (only InitFull uses them)
StaleIds == {50 + i : i \in 1..(MAX_VIEWERS - 1)}
\* custom ids: strings without surrounding white space
CustomIds == {100 + i : i \in 1..NumCustomIds}
\* what a client can pass to identify: a custom id, or the same string with
\* white space around it (c + 10 stands for " c ")
RawIds == CustomIds \cup {c + 10 : c \in CustomIds}
\* room ids (non-empty strings)
RoomIds == {200 + i : i \in 1..NumRooms}
\* a missing / empty / falsy argument
Blank == 0
\* what a client can name as target / viewerId
Targets == SocketIds \cup CustomIds
\* payload of an event that carries none
NoData == [none |-> TRUE]

VARIABLES
  sockets,            \* live connections (io.sockets)
  disconnected,       \* socket ids whose connection has closed
  rooms,              \* rooms object: roomId -> room record
  socketToRoom,       \* socketToRoom object: socket.id -> roomId
  socketInstances,    \* keys of the socketInstances map
  customIdToSocketId, \* custom id -> socket.id
  socketIdToCustomId, \* socket.id -> custom id
  pendingSignals,     \* target id -> queued signals (key present iff queued)
  joined,             \* socket.io broadcast groups: roomId -> set of sockets
  sent,               \* number of signaling events handled so far
  inbox,              \* signaling events each socket has received, in order,
                      \* each with the path it took ("direct" or "queue")
  emits,              \* what the last handler emitted, in order
  events,             \* number of events dispatched so far
  gone,               \* pairs <<roomId, id>>: the id was revoked by
                      \* stop-viewer-stream in that room, or left it as a
                      \* viewer, since the room was created
  lastStop,           \* outcome of the most recent stop-streaming event:
                      \* "none" so far, "done", or "refused" (sent for an
                      \* existing room by a connection that is not its host)
  left                \* per socket: "never" created or joined a room, or sent
                      \* "no" leave-room since its last create/join, or sent
                      \* it "once", or "twice" or more

vars == <<sockets, disconnected, rooms, socketToRoom, socketInstances,
          customIdToSocketId, socketIdToCustomId, pendingSignals, joined,
          sent, inbox, emits, events, gone, lastStop, left>>

\* ---- JS Map / object helpers --------------------------------------------
EmptyMap == [x \in {} |-> 0]
MapSet(m, k, v) == (k :> v) @@ m
MapDelete(m, k) == [x \in (DOMAIN m) \ {k} |-> m[x]]
MapDeleteAll(m, ks) == [x \in (DOMAIN m) \ ks |-> m[x]]

RECURSIVE SeqOfSet(_)
\* iteration over a Set of ids (ascending id stands for insertion order)
SeqOfSet(S) ==
  IF S = {} THEN <<>>
  ELSE LET m == CHOOSE x \in S : \A y \in S : x <= y
       IN <<m>> \o SeqOfSet(S \ {m})

\* one emit: the set of sockets it reaches, the event name, the payload
Emit(to, event, data) == [to |-> to, event |-> event, data |-> data]

\* ---- helper functions of the server -------------------------------------
\* emitRoomInfo(roomId)
emitRoomInfo(rms, grp, inst, roomId) ==
  IF roomId \notin DOMAIN rms THEN <<>>
  ELSE <<Emit(grp[roomId], "room-info",
              [hostId |-> rms[roomId].hostId,
               viewerCount |-> Cardinality(rms[roomId].viewers),
               isHostActive |-> rms[roomId].hostId \in inst,
               isHostStreaming |-> rms[roomId].isStreaming,
               isViewerStreaming |-> rms[roomId].isViewerStreaming,
               approvedViewerIds |-> rms[roomId].approvedViewerIds])>>

\* queueSignal with unshift in place of push
queueSignalFront(pend, targetId, signal) ==
  IF targetId \in DOMAIN pend
  THEN [pend EXCEPT ![targetId] = <<signal>> \o @]
  ELSE MapSet(pend, targetId, <<signal>>)

\* queueSignal(targetId, signal): the queue after the push
queueSignal(pend, targetId, signal) ==
  IF targetId \in DOMAIN pend
  THEN [pend EXCEPT ![targetId] = Append(@, signal)]
  ELSE MapSet(pend, targetId, <<signal>>)

\* processQueuedSignals(socketId): the signals it emits to socketId
QueuedDelivery(pend, inst, socketId) ==
  IF socketId \in DOMAIN pend /\ socketId \in inst THEN pend[socketId] ELSE <<>>

\* processQueuedSignals(socketId): the queue map it leaves
processQueuedSignals(pend, socketId) == MapDelete(pend, socketId)

\* inbox entries: a signal together with the path it arrived on
Arrived(signals, via) ==
  [i \in 1..Len(signals) |->
     [event |-> signals[i].event, data |-> signals[i].data, via |-> via]]

\* the emits of a delivered sequence of signals
SignalEmits(to, signals) ==
  [i \in 1..Len(signals) |-> Emit({to}, signals[i].event, signals[i].data)]

\* leaveRoom without its delete socketToRoom[socket.id]
ForgetSocketNot(s2r, s) == s2r

\* leaveRoom, line 532: delete socketToRoom[socket.id]
ForgetSocket(s2r, s) == MapDelete(s2r, s)

\* a room closure that keeps the viewers' socketToRoom entries
ForgetViewersNot(s2r, viewers) == s2r

\* leaveRoom, line 515, over the closed room's viewers:
\* delete socketToRoom[viewerId]
ForgetViewers(s2r, viewers) == MapDeleteAll(s2r, viewers)

\* leaveRoom, lines 515-516 and 533: the queues leaveRoom discards
DiscardQueues(pend, ids) == MapDeleteAll(pend, ids)

\* leaveRoom(socket, roomId): the new rooms, socketToRoom, pendingSignals,
\* broadcast groups, and the emits, from the values it is called with
leaveRoom(s, roomId, rms, s2r, pend, grp, inst) ==
  IF roomId \notin DOMAIN rms
  THEN [rooms |-> rms, socketToRoom |-> s2r, pendingSignals |-> pend,
        joined |-> grp, emits |-> <<>>]
  ELSE
    LET room == rms[roomId]
    IN IF room.hostId = s
       THEN
         LET told == SeqOfSet(room.viewers \cap inst)
             grp1 == [grp EXCEPT ![roomId] = (@ \ (room.viewers \cap inst)) \ {s}]
         IN [rooms |-> MapDelete(rms, roomId),
             socketToRoom |-> ForgetSocket(ForgetViewers(s2r, room.viewers), s),
             pendingSignals |-> DiscardQueues(pend, room.viewers \cup {s}),
             joined |-> grp1,
             emits |-> <<Emit(grp[roomId], "host-left", NoData)>>
                       \o [i \in 1..Len(told) |->
                             Emit({told[i]}, "room-closed", NoData)]]
       ELSE
         LET wasApproved == s \in room.approvedViewerIds
             room1 == [room EXCEPT !.viewers = @ \ {s}]
             room2 == IF wasApproved
                      THEN [room1 EXCEPT !.approvedViewerIds = @ \ {s},
                                         !.isViewerStreaming = @ \ {s}]
                      ELSE room1
             rms1 == [rms EXCEPT ![roomId] = room2]
             grp1 == [grp EXCEPT ![roomId] = @ \ {s}]
         IN [rooms |-> rms1,
             socketToRoom |-> ForgetSocket(s2r, s),
             pendingSignals |-> DiscardQueues(pend, {s}),
             joined |-> grp1,
             emits |-> (IF wasApproved
                        THEN <<Emit(grp[roomId], "viewer-stopped-streaming",
                                    [id |-> s])>>
                        ELSE <<>>)
                       \o (IF room.hostId \in inst
                           THEN <<Emit({room.hostId}, "user-left", [id |-> s])>>
                           ELSE <<>>)
                       \o emitRoomInfo(rms1, grp1, inst, roomId)]

\* the capacity test with > in place of >=
RoomIsFullOffByOne(room) == Cardinality(room.viewers) > MAX_VIEWERS

\* join-room, line 282: the capacity test
RoomIsFull(room) == Cardinality(room.viewers) >= MAX_VIEWERS

\* identify, line 227: customid?.toString().trim()
Trim(customid) == IF customid - 10 \in CustomIds THEN customid - 10 ELSE customid

\* the identify test for a bound custom id, forgotten
IdInUseUnchecked(c2s, customId) == FALSE

\* identify, line 234: customIdToSocketId.has(customId)
IdInUse(c2s, customId) == customId \in DOMAIN c2s

\* the create-room test for an existing room, forgotten
RoomExistsUnchecked(rms, roomId) == FALSE

\* create-room, line 253: if (rooms[roomId])
RoomExists(rms, roomId) == roomId \in DOMAIN rms

\* the host test without the hostId comparison
IsHostOfUnchecked(rms, roomId, s) == roomId \in DOMAIN rms

\* host-streaming, line 323 (and stop-streaming of the earlier server):
\* rooms[roomId] && rooms[roomId].hostId === socket.id
IsHostOf(rms, roomId, s) == roomId \in DOMAIN rms /\ rms[roomId].hostId = s

\* the viewer-streaming guard without the approvedViewerIds test
MayViewerStreamUnapproved(rms, roomId, s) == roomId \in DOMAIN rms

\* viewer-streaming, line 341: the guard
MayViewerStream(rms, roomId, s) ==
  roomId \in DOMAIN rms /\ s \in rms[roomId].approvedViewerIds

\* ---- initial states -----------------------------------------------------
InitCommon ==
  /\ socketInstances = {}
  /\ customIdToSocketId = EmptyMap
  /\ socketIdToCustomId = EmptyMap
  /\ pendingSignals = EmptyMap
  /\ sent = 0
  /\ inbox = [s \in SocketIds |-> <<>>]
  /\ emits = <<>>
  /\ lastStop = "none"
  /\ gone = {}

\* the server right after start: no connection, no room
Init ==
  /\ InitCommon
  /\ sockets = {}
  /\ disconnected = {}
  /\ rooms = EmptyMap
  /\ socketToRoom = EmptyMap
  /\ events = 0
  /\ joined = [r \in RoomIds |-> {}]
  /\ left = [s \in SocketIds |-> "never"]

\* A server whose room 201 is one viewer short of capacity.  Socket 1 is
\* the live host of 201.  Nine earlier connections (StaleIds) joined 201,
\* then joined a second room (join-room never takes the socket out of its
\* previous room), that room's host left, which deleted their socketToRoom
\* entries, and they disconnected: the disconnect handler finds no
\* socketToRoom entry and leaves them in the viewers set of 201.  The
\* connection and the create-room of socket 1 count as events of the run.
InitFull ==
  /\ InitCommon
  /\ sockets = {1}
  /\ disconnected = StaleIds
  /\ rooms = (201 :> [hostId |-> 1, viewers |-> StaleIds,
                      isStreaming |-> FALSE, isHostReady |-> FALSE,
                      messages |-> <<>>, approvedViewerIds |-> {},
                      isViewerStreaming |-> {}])
  /\ socketToRoom = (1 :> 201)
  /\ events = 2
  /\ joined = [r \in RoomIds |-> IF r = 201 THEN {1} ELSE {}]
  /\ left = [s \in SocketIds |-> IF s = 1 THEN "no" ELSE "never"]

\* A server with one running room: socket 1 created room 201, socket 2
\* identified as custom id 101, joined 201 and had its stream request
\* accepted by the host (connect, connect, identify, create-room, join-room,
\* respond-stream-request).  Three more events can be dispatched.
InitStreamer ==
  /\ pendingSignals = EmptyMap
  /\ sent = 0
  /\ inbox = [s \in SocketIds |-> <<>>]
  /\ emits = <<>>
  /\ lastStop = "none"
  /\ gone = {}
  /\ sockets = {1, 2}
  /\ disconnected = {}
  /\ socketInstances = {2}
  /\ customIdToSocketId = (101 :> 2)
  /\ socketIdToCustomId = (2 :> 101)
  /\ rooms = (201 :> [hostId |-> 1, viewers |-> {2},
                      isStreaming |-> FALSE, isHostReady |-> FALSE,
                      messages |-> <<>>, approvedViewerIds |-> {2},
                      isViewerStreaming |-> {}])
  /\ socketToRoom = (1 :> 201) @@ (2 :> 201)
  /\ events = MaxEvents - 3
  /\ joined = [r \in RoomIds |-> IF r = 201 THEN {1, 2} ELSE {}]
  /\ left = [s \in SocketIds |-> IF s \in {1, 2} THEN "no" ELSE "never"]

\* ---- actions ------------------------------------------------------------
\* the event loop takes the next event of a run
Dispatched == events < MaxEvents /\ events' = events + 1

\* io.on('connection'): a new socket with the next fresh id
Connect(s) ==
  /\ s \in SocketIds \ (sockets \cup disconnected)
  /\ \A t \in SocketIds : t < s => t \in sockets \cup disconnected
  /\ sockets' = sockets \cup {s}
  /\ emits' = <<>>
  /\ Dispatched
  /\ UNCHANGED <<disconnected, rooms, socketToRoom, socketInstances,
                 customIdToSocketId, socketIdToCustomId, pendingSignals,
                 joined, sent, inbox, left, lastStop, gone>>

\* socket.on('identify')
Identify(s, customid) ==
  /\ s \in sockets
  /\ Dispatched
  /\ LET customId == Trim(customid)
     IN IF customId = Blank
        THEN /\ emits' = <<Emit({s}, "invalid-identify", NoData)>>
             /\ UNCHANGED <<customIdToSocketId, socketIdToCustomId,
                            socketInstances, pendingSignals, inbox>>
        ELSE IF IdInUse(customIdToSocketId, customId)
        THEN /\ emits' = <<Emit({s}, "socket-id-in-use", NoData)>>
             /\ UNCHANGED <<customIdToSocketId, socketIdToCustomId,
                            socketInstances, pendingSignals, inbox>>
        ELSE LET inst1 == socketInstances \cup {s}
                 delivered == QueuedDelivery(pendingSignals, inst1, s)
             IN /\ customIdToSocketId' =
                     MapSet(customIdToSocketId, customId, s)
                /\ socketIdToCustomId' =
                     MapSet(socketIdToCustomId, s, customId)
                /\ socketInstances' = inst1
                /\ pendingSignals' = processQueuedSignals(pendingSignals, s)
                /\ inbox' = [inbox EXCEPT ![s] =
                               @ \o Arrived(delivered, "queue")]
                /\ emits' = SignalEmits(s, delivered)
  /\ UNCHANGED <<sockets, disconnected, rooms, socketToRoom, joined, sent, left,
                 lastStop, gone>>

\* socket.on('create-room')
CreateRoom(s, roomId) ==
  /\ s \in sockets
  /\ Dispatched
  /\ IF roomId = Blank
     THEN /\ emits' = <<Emit({s}, "invalid-room", NoData)>>
          /\ UNCHANGED <<rooms, socketToRoom, joined, left>>
     ELSE IF RoomExists(rooms, roomId)
     THEN /\ emits' = <<Emit({s}, "room-exists", NoData)>>
          /\ UNCHANGED <<rooms, socketToRoom, joined, left>>
     ELSE LET rms1 == MapSet(rooms, roomId,
                             [hostId |-> s, viewers |-> {},
                              isStreaming |-> FALSE, isHostReady |-> FALSE,
                              messages |-> <<>>, approvedViewerIds |-> {},
                              isViewerStreaming |-> {}])
              grp1 == [joined EXCEPT ![roomId] = @ \cup {s}]
          IN /\ rooms' = rms1
             /\ socketToRoom' = MapSet(socketToRoom, s, roomId)
             /\ joined' = grp1
             /\ left' = [left EXCEPT ![s] = "no"]
             /\ emits' = <<Emit({s}, "room-created",
                                [roomId |-> roomId, socketid |-> s])>>
                         \o emitRoomInfo(rms1, grp1, socketInstances, roomId)
  /\ UNCHANGED <<sockets, disconnected, socketInstances, customIdToSocketId,
                 socketIdToCustomId, pendingSignals, sent, inbox,
                 lastStop, gone>>

\* socket.on('join-room')
JoinRoom(s, roomId) ==
  /\ s \in sockets
  /\ Dispatched
  /\ IF roomId \notin DOMAIN rooms
     THEN /\ emits' = <<Emit({s}, "invalid-room", NoData)>>
          /\ UNCHANGED <<rooms, socketToRoom, joined, left>>
     ELSE IF RoomIsFull(rooms[roomId])
     THEN /\ emits' = <<Emit({s}, "room-full", NoData)>>
          /\ UNCHANGED <<rooms, socketToRoom, joined, left>>
     ELSE LET room1 == [rooms[roomId] EXCEPT !.viewers = @ \cup {s}]
              rms1 == [rooms EXCEPT ![roomId] = room1]
              grp1 == [joined EXCEPT ![roomId] = @ \cup {s}]
              streamers == SeqOfSet(room1.isViewerStreaming)
          IN /\ rooms' = rms1
             /\ socketToRoom' = MapSet(socketToRoom, s, roomId)
             /\ joined' = grp1
             /\ left' = [left EXCEPT ![s] = "no"]
             /\ emits' =
                  <<Emit({s}, "room-joined",
                         [roomId |-> roomId, hostId |-> room1.hostId,
                          isHostStreaming |-> room1.isStreaming,
                          viewerCount |-> Cardinality(room1.viewers),
                          messages |-> room1.messages,
                          approvedViewerIds |-> room1.approvedViewerIds])>>
                  \o (IF room1.isHostReady /\ room1.hostId \in socketInstances
                      THEN <<Emit({room1.hostId}, "user-joined", [id |-> s])>>
                      ELSE <<>>)
                  \o (IF room1.isStreaming
                      THEN <<Emit({s}, "host-started-streaming", NoData),
                             Emit({s}, "viewer-joined", [id |-> room1.hostId])>>
                      ELSE <<>>)
                  \o [i \in 1..Len(streamers) |->
                        Emit({s}, "viewer-started-streaming",
                             [id |-> streamers[i]])]
                  \o emitRoomInfo(rms1, grp1, socketInstances, roomId)
  /\ UNCHANGED <<sockets, disconnected, socketInstances, customIdToSocketId,
                 socketIdToCustomId, pendingSignals, sent, inbox,
                 lastStop, gone>>

\* socket.on('host-streaming')
HostStreaming(s, roomId) ==
  /\ s \in sockets
  /\ Dispatched
  /\ IF ~IsHostOf(rooms, roomId, s)
     THEN /\ emits' = <<>>
          /\ UNCHANGED rooms
     ELSE LET rms1 == [rooms EXCEPT ![roomId].isStreaming = TRUE,
                                    ![roomId].isHostReady = TRUE]
              told == SeqOfSet(rooms[roomId].viewers \cap socketInstances)
          IN /\ rooms' = rms1
             /\ emits' =
                  [i \in 1..(2 * Len(told)) |->
                     IF i % 2 = 1
                     THEN Emit({told[(i + 1) \div 2]}, "host-started-streaming",
                               NoData)
                     ELSE Emit({told[i \div 2]}, "viewer-joined", [id |-> s])]
                  \o emitRoomInfo(rms1, joined, socketInstances, roomId)
  /\ UNCHANGED <<sockets, disconnected, socketToRoom, socketInstances,
                 customIdToSocketId, socketIdToCustomId, pendingSignals,
                 joined, sent, inbox, left, lastStop, gone>>

\* socket.on('viewer-streaming')
ViewerStreaming(s, roomId) ==
  /\ s \in sockets
  /\ Dispatched
  /\ IF ~MayViewerStream(rooms, roomId, s)
     THEN /\ emits' = <<>>
          /\ UNCHANGED rooms
     ELSE LET rms1 == [rooms EXCEPT ![roomId].isViewerStreaming = @ \cup {s}]
          IN /\ rooms' = rms1
             /\ emits' = <<Emit(joined[roomId], "viewer-started-streaming",
                                [id |-> s])>>
                         \o emitRoomInfo(rms1, joined, socketInstances, roomId)
  /\ UNCHANGED <<sockets, disconnected, socketToRoom, socketInstances,
                 customIdToSocketId, socketIdToCustomId, pendingSignals,
                 joined, sent, inbox, left, lastStop, gone>>

\* the sdp or the candidate a signal carries
PayloadOf(data) == IF "sdp" \in DOMAIN data THEN data.sdp ELSE data.candidate

\* the body the offer, answer and ice-candidate handlers share (they differ
\* in the event name and in the name of the payload field only).  The n-th
\* signaling event of a run carries payload n, so that deliveries can be
\* told apart.
Relay(s, event, field, target, payload) ==
  /\ s \in sockets
  /\ sent < MaxSignals
  /\ payload \in {Blank, sent + 1}
  /\ Dispatched
  /\ IF target = Blank \/ payload = Blank
     THEN /\ emits' = <<>>
          /\ UNCHANGED <<pendingSignals, inbox, sent>>
     ELSE LET data == (field :> payload) @@ ("sender" :> s)
          IN /\ sent' = sent + 1
             /\ IF target \in socketInstances
                THEN /\ emits' = <<Emit({target}, event, data)>>
                     /\ inbox' = [inbox EXCEPT ![target] = @ \o
                                    Arrived(<<[event |-> event, data |-> data]>>,
                                            "direct")]
                     /\ UNCHANGED pendingSignals
                ELSE /\ emits' = <<>>
                     /\ pendingSignals' =
                          queueSignal(pendingSignals, target,
                                      [event |-> event, data |-> data])
                     /\ UNCHANGED inbox
  /\ UNCHANGED <<sockets, disconnected, rooms, socketToRoom, socketInstances,
                 customIdToSocketId, socketIdToCustomId, joined, left,
                 lastStop, gone>>

\* socket.on('offer')
Offer(s, target, sdp) == Relay(s, "offer", "sdp", target, sdp)

\* socket.on('answer')
Answer(s, target, sdp) == Relay(s, "answer", "sdp", target, sdp)

\* socket.on('ice-candidate')
IceCandidate(s, target, candidate) ==
  Relay(s, "ice-candidate", "candidate", target, candidate)

\* socket.on('send-message')
SendMessage(s, message) ==
  /\ s \in sockets
  /\ Dispatched
  /\ IF message = Blank
        \/ s \notin DOMAIN socketToRoom
        \/ socketToRoom[s] \notin DOMAIN rooms
     THEN /\ emits' = <<>>
          /\ UNCHANGED rooms
     ELSE LET roomId == socketToRoom[s]
              newMessage == [sender |-> s, message |-> message]
          IN /\ Len(rooms[roomId].messages) < MaxMessages
             /\ rooms' = [rooms EXCEPT ![roomId].messages =
                            Append(@, newMessage)]
             /\ emits' = <<Emit(joined[roomId], "new-message", newMessage)>>
  /\ UNCHANGED <<sockets, disconnected, socketToRoom, socketInstances,
                 customIdToSocketId, socketIdToCustomId, pendingSignals,
                 joined, sent, inbox, left, lastStop, gone>>

\* the revoked-or-left record after socket s went through leaveRoom: the
\* host's leave deletes the room and ends its lifetime, a viewer's leave
\* records the viewer
GoneAfterLeave(s) ==
  IF s \notin DOMAIN socketToRoom \/ socketToRoom[s] \notin DOMAIN rooms
  THEN gone
  ELSE IF rooms[socketToRoom[s]].hostId = s
  THEN {p \in gone : p[1] # socketToRoom[s]}
  ELSE IF s \in rooms[socketToRoom[s]].viewers
  THEN gone \cup {<<socketToRoom[s], s>>}
  ELSE gone

\* socket.on('leave-room')
LeaveRoom(s) ==
  /\ s \in sockets
  /\ Dispatched
  /\ left' = [left EXCEPT ![s] = IF @ = "never" THEN "never"
                                 ELSE IF @ = "no" THEN "once" ELSE "twice"]
  /\ IF s \notin DOMAIN socketToRoom
     THEN /\ emits' = <<>>
          /\ UNCHANGED <<rooms, socketToRoom, pendingSignals, joined>>
     ELSE LET res == leaveRoom(s, socketToRoom[s], rooms, socketToRoom,
                               pendingSignals, joined, socketInstances)
          IN /\ rooms' = res.rooms
             /\ socketToRoom' = res.socketToRoom
             /\ pendingSignals' = res.pendingSignals
             /\ joined' = res.joined
             /\ emits' = res.emits
  /\ gone' = GoneAfterLeave(s)
  /\ UNCHANGED <<sockets, disconnected, socketInstances, customIdToSocketId,
                 socketIdToCustomId, sent, inbox, lastStop>>

\* socket.on('disconnect'); socket.io has taken the socket out of every
\* broadcast group before the handler runs
Disconnect(s) ==
  /\ s \in sockets
  /\ Dispatched
  /\ sockets' = sockets \ {s}
  /\ disconnected' = disconnected \cup {s}
  /\ LET inst1 == socketInstances \ {s}
         pend1 == MapDelete(pendingSignals, s)
         c2s1 == IF s \in DOMAIN socketIdToCustomId
                 THEN MapDelete(customIdToSocketId, socketIdToCustomId[s])
                 ELSE customIdToSocketId
         grp0 == [r \in RoomIds |-> joined[r] \ {s}]
     IN /\ socketInstances' = inst1
        /\ customIdToSocketId' = c2s1
        /\ socketIdToCustomId' = MapDelete(socketIdToCustomId, s)
        /\ IF s \notin DOMAIN socketToRoom
           THEN /\ emits' = <<>>
                /\ pendingSignals' = pend1
                /\ joined' = grp0
                /\ UNCHANGED <<rooms, socketToRoom>>
           ELSE LET res == leaveRoom(s, socketToRoom[s], rooms, socketToRoom,
                                     pend1, grp0, inst1)
                IN /\ rooms' = res.rooms
                   /\ socketToRoom' = res.socketToRoom
                   /\ pendingSignals' = res.pendingSignals
                   /\ joined' = res.joined
                   /\ emits' = res.emits
  /\ gone' = GoneAfterLeave(s)
  /\ UNCHANGED <<sent, inbox, left, lastStop>>

\* socket.on('request-stream') (the display name in the payload is left out)
RequestStream(s) ==
  /\ s \in sockets
  /\ Dispatched
  /\ IF s \notin DOMAIN socketToRoom \/ socketToRoom[s] \notin DOMAIN rooms
     THEN emits' = <<>>
     ELSE LET hostId == rooms[socketToRoom[s]].hostId
          IN emits' = IF hostId \in socketInstances
                      THEN <<Emit({hostId}, "incoming-stream-request",
                                  [viewerId |-> s])>>
                      ELSE <<>>
  /\ UNCHANGED <<sockets, disconnected, rooms, socketToRoom, socketInstances,
                 customIdToSocketId, socketIdToCustomId, pendingSignals,
                 joined, sent, inbox, left, lastStop, gone>>

\* respond-stream-request, line 443: the approved set after an acceptance
Approve(room, viewerId) ==
  [room EXCEPT !.approvedViewerIds = @ \cup {viewerId}]

\* socket.on('respond-stream-request')
RespondStreamRequest(s, viewerId, accepted) ==
  /\ s \in sockets
  /\ Dispatched
  /\ IF s \notin DOMAIN socketToRoom
        \/ socketToRoom[s] \notin DOMAIN rooms
        \/ rooms[socketToRoom[s]].hostId # s
        \/ viewerId \notin socketInstances
     THEN /\ emits' = <<>>
          /\ UNCHANGED <<rooms, pendingSignals, inbox>>
     ELSE LET roomId == socketToRoom[s]
          IN IF accepted
             THEN LET delivered == QueuedDelivery(pendingSignals,
                                                  socketInstances, viewerId)
                  IN /\ rooms' = [rooms EXCEPT ![roomId] = Approve(@, viewerId)]
                     /\ pendingSignals' =
                          processQueuedSignals(pendingSignals, viewerId)
                     /\ inbox' = [inbox EXCEPT ![viewerId] =
                                    @ \o Arrived(delivered, "queue")]
                     /\ emits' = <<Emit({viewerId}, "stream-request-response",
                                        [accepted |-> TRUE, roomId |-> roomId,
                                         hostId |-> s])>>
                                 \o SignalEmits(viewerId, delivered)
             ELSE /\ emits' = <<Emit({viewerId}, "stream-request-response",
                                     [accepted |-> FALSE, roomId |-> roomId])>>
                  /\ UNCHANGED <<rooms, pendingSignals, inbox>>
  /\ UNCHANGED <<sockets, disconnected, socketToRoom, socketInstances,
                 customIdToSocketId, socketIdToCustomId, joined, sent, left,
                 lastStop, gone>>

\* a revocation that forgets the streaming set
RevokeApprovalOnly(room, viewerId) ==
  [room EXCEPT !.approvedViewerIds = @ \ {viewerId}]

\* stop-viewer-stream, lines 467-468: the room after the revocation
Revoke(room, viewerId) ==
  [room EXCEPT !.approvedViewerIds = @ \ {viewerId},
               !.isViewerStreaming = @ \ {viewerId}]

\* socket.on('stop-viewer-stream')
StopViewerStream(s, viewerId) ==
  /\ s \in sockets
  /\ Dispatched
  /\ IF s \notin DOMAIN socketToRoom
        \/ socketToRoom[s] \notin DOMAIN rooms
        \/ rooms[socketToRoom[s]].hostId # s
        \/ viewerId \notin rooms[socketToRoom[s]].approvedViewerIds
     THEN /\ emits' = <<>>
          /\ UNCHANGED <<rooms, gone>>
     ELSE LET roomId == socketToRoom[s]
              rms1 == [rooms EXCEPT ![roomId] = Revoke(@, viewerId)]
          IN /\ rooms' = rms1
             /\ gone' = gone \cup {<<roomId, viewerId>>}
             /\ emits' = (IF viewerId \in socketInstances
                          THEN <<Emit({viewerId}, "viewer-stopped-streaming",
                                      [id |-> viewerId])>>
                          ELSE <<>>)
                         \o <<Emit(joined[roomId], "viewer-stopped-streaming",
                                   [id |-> viewerId])>>
                         \o emitRoomInfo(rms1, joined, socketInstances, roomId)
  /\ UNCHANGED <<sockets, disconnected, socketToRoom, socketInstances,
                 customIdToSocketId, socketIdToCustomId, pendingSignals,
                 joined, sent, inbox, left, lastStop>>

\* emitRoomInfo(roomId) of the earlier server (src/unnamed/part_000)
emitRoomInfoLegacy(rms, grp, live, roomId) ==
  IF roomId \notin DOMAIN rms THEN <<>>
  ELSE <<Emit(grp[roomId], "room-info",
              [hostId |-> rms[roomId].hostId,
               viewerCount |-> Cardinality(rms[roomId].viewers),
               viewerList |-> SeqOfSet(rms[roomId].viewers),
               isHostActive |-> rms[roomId].hostId \in live,
               isHostStreaming |-> rms[roomId].isStreaming])>>

\* socket.on('stop-streaming') of the earlier server (src/unnamed/part_000);
\* io.to(viewerId) reaches the viewer if it is a live connection
StopStreaming(s, roomId) ==
  /\ s \in sockets
  /\ Dispatched
  /\ IF ~IsHostOf(rooms, roomId, s)
     THEN /\ emits' = <<>>
          /\ lastStop' = IF roomId \in DOMAIN rooms THEN "refused"
                          ELSE lastStop
          /\ UNCHANGED rooms
     ELSE LET rms1 == [rooms EXCEPT ![roomId].isStreaming = FALSE]
              told == SeqOfSet(rooms[roomId].viewers)
          IN /\ rooms' = rms1
             /\ lastStop' = "done"
             /\ emits' = [i \in 1..Len(told) |->
                            Emit({told[i]} \cap sockets,
                                 "host-stopped-streaming", NoData)]
                         \o emitRoomInfoLegacy(rms1, joined, sockets, roomId)
  /\ UNCHANGED <<sockets, disconnected, socketToRoom, socketInstances,
                 customIdToSocketId, socketIdToCustomId, pendingSignals,
                 joined, sent, inbox, left, gone>>

Next ==
  \/ \E s \in SocketIds : Connect(s)
  \/ \E s \in SocketIds, c \in RawIds \cup {Blank} : Identify(s, c)
  \/ \E s \in SocketIds, r \in RoomIds \cup {Blank} : CreateRoom(s, r)
  \/ \E s \in SocketIds, r \in RoomIds : JoinRoom(s, r)
  \/ \E s \in SocketIds, r \in RoomIds \cup {Blank} : HostStreaming(s, r)
  \/ \E s \in SocketIds, r \in RoomIds \cup {Blank} : ViewerStreaming(s, r)
  \/ \E s \in SocketIds, t \in Targets \cup {Blank}, p \in 0..MaxSignals :
        Offer(s, t, p)
  \/ \E s \in SocketIds, t \in Targets \cup {Blank}, p \in 0..MaxSignals :
        Answer(s, t, p)
  \/ \E s \in SocketIds, t \in Targets \cup {Blank}, p \in 0..MaxSignals :
        IceCandidate(s, t, p)
  \/ \E s \in SocketIds, m \in {Blank, 1} : SendMessage(s, m)
  \/ \E s \in SocketIds : LeaveRoom(s)
  \/ \E s \in SocketIds : Disconnect(s)
  \/ \E s \in SocketIds : RequestStream(s)
  \/ \E s \in SocketIds, v \in Targets, a \in BOOLEAN :
        RespondStreamRequest(s, v, a)
  \/ \E s \in SocketIds, v \in Targets : StopViewerStream(s, v)

Spec == Init /\ [][Next]_vars

\* the same server, started from the nearly full room
SpecFull == InitFull /\ [][Next]_vars

\* the same server, started from the room with an approved viewer
SpecStreamer == InitStreamer /\ [][Next]_vars

\* the server with the stop-streaming handler of the earlier server added
NextWithStop ==
  \/ Next
  \/ \E s \in SocketIds, r \in RoomIds \cup {Blank} : StopStreaming(s, r)

SpecWithStop == Init /\ [][NextWithStop]_vars

\* socket.on('chat-message') of the earlier server (src/unnamed/part_000)
ChatMessage(s, roomId, message) ==
  /\ s \in sockets
  /\ Dispatched
  /\ IF roomId \notin DOMAIN rooms \/ message = Blank
     THEN /\ emits' = <<>>
          /\ UNCHANGED rooms
     ELSE LET newMessage == [senderId |-> s, message |-> message]
          IN /\ Len(rooms[roomId].messages) < MaxMessages
             /\ rooms' = [rooms EXCEPT ![roomId].messages =
                            Append(@, newMessage)]
             /\ emits' = <<Emit(joined[roomId], "chat-message", newMessage)>>
  /\ UNCHANGED <<sockets, disconnected, socketToRoom, socketInstances,
                 customIdToSocketId, socketIdToCustomId, pendingSignals,
                 joined, sent, inbox, left, lastStop, gone>>

\* socket.on('reaction') of the earlier server (src/unnamed/part_000)
Reaction(s, roomId, type) ==
  /\ s \in sockets
  /\ Dispatched
  /\ emits' = IF roomId \notin DOMAIN rooms \/ type = Blank
              THEN <<>>
              ELSE <<Emit(joined[roomId], "reaction",
                          [senderId |-> s, type |-> type])>>
  /\ UNCHANGED <<sockets, disconnected, rooms, socketToRoom, socketInstances,
                 customIdToSocketId, socketIdToCustomId, pendingSignals,
                 joined, sent, inbox, left, lastStop, gone>>

\* the server with the chat-message and reaction handlers of the earlier
\* server added
NextWithChat ==
  \/ Next
  \/ \E s \in SocketIds, r \in RoomIds \cup {Blank}, m \in {Blank, 1} :
        ChatMessage(s, r, m)
  \/ \E s \in SocketIds, r \in RoomIds \cup {Blank}, m \in {Blank, 1} :
        Reaction(s, r, m)

SpecWithChat == Init /\ [][NextWithChat]_vars

\* ---- properties --------------------------------------------------------
Rooms == DOMAIN rooms

\* how many emits of ems carry event to socket v
Received(ems, v, event) ==
  Cardinality({i \in 1..Len(ems) : ems[i].event = event /\ v \in ems[i].to})

\* how many emits of ems carry event
Emitted(ems, event) ==
  Cardinality({i \in 1..Len(ems) : ems[i].event = event})

IsPrefix(a, b) == Len(a) <= Len(b) /\ SubSeq(b, 1, Len(a)) = a

\* s is the host of the room socketToRoom names for it
HostsItsRoom(s) ==
  /\ s \in DOMAIN socketToRoom
  /\ socketToRoom[s] \in Rooms
  /\ rooms[socketToRoom[s]].hostId = s

\* C1: in every reachable state every room's approved set is a subset of
\* its viewers set.
ApprovedAreViewers ==
  \A r \in Rooms : rooms[r].approvedViewerIds \subseteq rooms[r].viewers

\* C2: in every reachable state every room's streaming set is a subset of
\* its approved set.
StreamingAreApproved ==
  \A r \in Rooms : rooms[r].isViewerStreaming \subseteq rooms[r].approvedViewerIds

\* C2 witness: the last event was a viewer-streaming of an approved socket,
\* which is now in the room's streaming set.
SomeViewerStreams ==
  \E r \in Rooms : \E v \in rooms[r].isViewerStreaming :
    /\ v \in rooms[r].approvedViewerIds
    /\ Len(emits) = 2
    /\ emits[1].event = "viewer-started-streaming"
    /\ emits[1].data.id = v

\* C3: in every reachable state no room's host is in that room's viewers.
HostIsNotViewer ==
  \A r \in Rooms : rooms[r].hostId \notin rooms[r].viewers

\* C4: a join-room on a room that already has MAX_VIEWERS viewers answers
\* room-full and changes neither the room nor socketToRoom nor the
\* broadcast groups, and no room ever has more than MAX_VIEWERS viewers.
FullRoomRejectsJoin ==
  /\ [][\A s \in SocketIds, r \in RoomIds :
         (/\ r \in Rooms
          /\ Cardinality(rooms[r].viewers) >= MAX_VIEWERS
          /\ JoinRoom(s, r))
         => (/\ emits' = <<Emit({s}, "room-full", NoData)>>
             /\ UNCHANGED <<rooms, socketToRoom, joined>>)]_vars
  /\ [](\A r \in Rooms : Cardinality(rooms[r].viewers) <= MAX_VIEWERS)

\* C4 witness: a room holds MAX_VIEWERS viewers and the last join-room was
\* answered with room-full.
JoinWasRefused ==
  \E r \in Rooms : \E s \in sockets :
    /\ Cardinality(rooms[r].viewers) = MAX_VIEWERS
    /\ s \notin rooms[r].viewers
    /\ emits = <<Emit({s}, "room-full", NoData)>>

\* the queue of target t only grew in this step and t received nothing
QueueKept(t) ==
  /\ t \in DOMAIN pendingSignals'
  /\ IsPrefix(pendingSignals[t], pendingSignals'[t])
  /\ t \in SocketIds => inbox'[t] = inbox[t]

\* the queue of target t was delivered to t, whole and in order, in this
\* step, in which t is reachable
QueueDelivered(t) ==
  /\ t \notin DOMAIN pendingSignals'
  /\ t \in socketInstances'
  /\ inbox'[t] = inbox[t] \o Arrived(pendingSignals[t], "queue")
  /\ emits' = SignalEmits(t, pendingSignals[t])

\* C5: a queue of signals is only ever extended, or delivered whole, once
\* and in order to its target when the target becomes reachable, or dropped
\* by the target's own disconnect; no other event loses a queued signal.
QueuedSignalsSurvive ==
  [][\A t \in Targets :
       t \in DOMAIN pendingSignals
       => (QueueKept(t) \/ QueueDelivered(t) \/ Disconnect(t))]_vars

\* C6: an identify with a custom id for which signals are queued delivers
\* them to the identifying connection.
DurableIdGetsItsQueue ==
  [][\A s \in SocketIds, c \in CustomIds :
       (/\ c \in DOMAIN pendingSignals
        /\ c \notin DOMAIN customIdToSocketId
        /\ Identify(s, c))
       => inbox'[s] = inbox[s] \o Arrived(pendingSignals[c], "queue")]_vars

\* C7: every socket receives the signals of one sender in the order they
\* were sent, and no queue exists for a socket the direct path reaches.
SenderOrderIsKept ==
  /\ \A t \in SocketIds : \A i, j \in 1..Len(inbox[t]) :
        (i < j /\ inbox[t][i].data.sender = inbox[t][j].data.sender)
        => PayloadOf(inbox[t][i].data) < PayloadOf(inbox[t][j].data)
  /\ \A t \in socketInstances : t \notin DOMAIN pendingSignals

\* C7 witness: a socket got a queued signal and then a direct one from the
\* same sender.
QueuedThenDirect ==
  \E t \in SocketIds :
    /\ Len(inbox[t]) = 2
    /\ inbox[t][1].via = "queue" /\ inbox[t][2].via = "direct"
    /\ inbox[t][1].data.sender = inbox[t][2].data.sender

\* C8: when the host of a room leaves or disconnects, the room is deleted,
\* each of its viewers receives room-closed once, and as many room-closed
\* are sent as there are viewers (counting the viewers that are live
\* connections other than the host), and no socketToRoom entry names the
\* room afterwards.
HostLeaveClosesRoom ==
  [][\A s \in SocketIds :
       (HostsItsRoom(s) /\ (LeaveRoom(s) \/ Disconnect(s)))
       => LET N == (rooms[socketToRoom[s]].viewers \cap sockets) \ {s}
          IN /\ socketToRoom[s] \notin DOMAIN rooms'
             /\ \A v \in N : Received(emits', v, "room-closed") = 1
             /\ Emitted(emits', "room-closed") = Cardinality(N)
             /\ \A x \in DOMAIN socketToRoom' :
                  socketToRoom'[x] # socketToRoom[s]]_vars

\* C9: in every reachable state every room's host is a live connection.
HostIsConnected ==
  \A r \in Rooms : rooms[r].hostId \in sockets

\* C10: a leave-room of a socket that has left, and has not created or
\* joined a room since, changes nothing and emits nothing.
SecondLeaveIsNoOp ==
  [][\A s \in SocketIds :
       (left[s] \in {"once", "twice"} /\ LeaveRoom(s))
       => (/\ emits' = <<>>
           /\ UNCHANGED <<rooms, socketToRoom, pendingSignals, joined,
                          socketInstances, customIdToSocketId,
                          socketIdToCustomId, inbox>>)]_vars

\* C10 witness: a socket that was in a room has sent leave-room twice in a
\* row.
LeftTwice ==
  \E s \in sockets : left[s] = "twice"

\* C11: a create-room for a roomId that names an existing room answers the
\* caller with room-exists and changes no room and no socketToRoom entry.
ExistingRoomRejectsCreate ==
  [][\A s \in SocketIds, r \in RoomIds :
       (r \in Rooms /\ CreateRoom(s, r))
       => (/\ emits' = <<Emit({s}, "room-exists", NoData)>>
           /\ UNCHANGED <<rooms, socketToRoom, joined>>)]_vars

\* C11 witness: a connection other than the host of an existing room has
\* just been answered room-exists.
CreateWasRefused ==
  \E r \in Rooms : \E s \in sockets :
    /\ rooms[r].hostId # s
    /\ rooms[r].hostId \in sockets
    /\ emits = <<Emit({s}, "room-exists", NoData)>>

\* v is a live viewer, other than the host, of the room socketToRoom names
\* for it, and the host of that room is a live connection
ViewerOfLiveHost(v) ==
  /\ v \in sockets
  /\ v \in DOMAIN socketToRoom
  /\ socketToRoom[v] \in Rooms
  /\ v \in rooms[socketToRoom[v]].viewers
  /\ rooms[socketToRoom[v]].hostId \in sockets \ {v}

BoundIdRejectsIdentify ==
  [][\A s \in SocketIds, c \in RawIds :
       (/\ Trim(c) \in DOMAIN customIdToSocketId
        /\ customIdToSocketId[Trim(c)] \in sockets \ {s}
        /\ Identify(s, c))
       => (/\ emits' = <<Emit({s}, "socket-id-in-use", NoData)>>
           /\ UNCHANGED <<customIdToSocketId, socketIdToCustomId,
                          socketInstances, pendingSignals>>)]_vars

\* C13 witness: a connection without a binding has just been answered
\* socket-id-in-use while another live connection holds a custom id.
IdentifyWasRefused ==
  \E s \in sockets : \E c \in DOMAIN customIdToSocketId :
    /\ customIdToSocketId[c] \in sockets \ {s}
    /\ s \notin DOMAIN socketIdToCustomId
    /\ emits = <<Emit({s}, "socket-id-in-use", NoData)>>

\* the custom ids bound to connection s
IdsBoundTo(s) ==
  {c \in DOMAIN customIdToSocketId : customIdToSocketId[c] = s}

\* C14: in every reachable state at most one custom id maps to any one
\* socket id.
OneIdPerConnection ==
  \A s \in SocketIds : Cardinality(IdsBoundTo(s)) <= 1

\* C15: after a connection disconnects it is not in socketInstances, no
\* custom id is bound to it, and no queue of signals exists for its socket
\* id.
DisconnectReleases ==
  [][\A s \in SocketIds :
       Disconnect(s)
       => (/\ s \notin socketInstances'
           /\ s \notin DOMAIN socketIdToCustomId'
           /\ \A c \in DOMAIN customIdToSocketId' :
                customIdToSocketId'[c] # s
           /\ s \notin DOMAIN pendingSignals')]_vars

\* C16: an offer, answer or ice-candidate whose target is the socket id of a
\* live connection is forwarded to it at once, tagged with the sender, and
\* is not queued, whether or not the target has identified.
LiveTargetGetsSignalAtOnce ==
  [][\A s, t \in SocketIds : \A p \in 1..MaxSignals :
       (t \in sockets
        /\ (Offer(s, t, p) \/ Answer(s, t, p) \/ IceCandidate(s, t, p)))
       => (/\ pendingSignals' = pendingSignals
           /\ Len(inbox'[t]) = Len(inbox[t]) + 1
           /\ LET got == inbox'[t][Len(inbox'[t])]
              IN /\ got.via = "direct"
                 /\ got.data.sender = s
                 /\ PayloadOf(got.data) = p)]_vars

\* room r exists after the step with the streaming flag and the viewers,
\* approved and streaming sets it had before
RoleStateKept(r) ==
  /\ r \in DOMAIN rooms'
  /\ rooms'[r].isStreaming = rooms[r].isStreaming
  /\ rooms'[r].viewers = rooms[r].viewers
  /\ rooms'[r].approvedViewerIds = rooms[r].approvedViewerIds
  /\ rooms'[r].isViewerStreaming = rooms[r].isViewerStreaming

\* C17: a host-streaming, stop-streaming, respond-stream-request or
\* stop-viewer-stream sent by a connection that is not the host of a room
\* leaves that room's streaming flag and its viewers, approved and
\* streaming sets unchanged.
OnlyHostChangesRoles ==
  [][\A s \in SocketIds : \A r \in Rooms :
       (/\ rooms[r].hostId # s
        /\ \/ HostStreaming(s, r)
           \/ StopStreaming(s, r)
           \/ \E v \in Targets : \E a \in BOOLEAN :
                RespondStreamRequest(s, v, a)
           \/ \E v \in Targets : StopViewerStream(s, v))
       => RoleStateKept(r)]_vars

\* C17 witness: a connection that is not the host has just sent
\* stop-streaming for a room whose host is streaming, and the room is still
\* streaming.
StopWasRefused ==
  /\ lastStop = "refused"
  /\ emits = <<>>
  /\ \E r \in Rooms : rooms[r].isStreaming /\ rooms[r].viewers # {}

\* C18: when the host sends host-streaming for its room, every live
\* connection in the room's viewers set receives host-started-streaming;
\* and a connection whose join-room succeeds while the room is streaming
\* receives host-started-streaming in that join.
ViewersLearnHostStreams ==
  [][\A s \in SocketIds : \A r \in Rooms :
       /\ (rooms[r].hostId = s /\ HostStreaming(s, r))
          => \A v \in (rooms[r].viewers \cap sockets) \ {s} :
               Received(emits', v, "host-started-streaming") = 1
       /\ (rooms[r].isStreaming /\ ~RoomIsFull(rooms[r]) /\ JoinRoom(s, r))
          => Received(emits', s, "host-started-streaming") = 1]_vars

\* C19: every successful join-room sends user-joined, carrying the joiner's
\* id, to the room's host whenever the host is a live connection, whether
\* or not the host has started streaming.
JoinNotifiesHost ==
  [][\A s \in SocketIds : \A r \in Rooms :
       (/\ ~RoomIsFull(rooms[r])
        /\ rooms[r].hostId \in sockets \ {s}
        /\ JoinRoom(s, r))
       => Emit({rooms[r].hostId}, "user-joined", [id |-> s])
            \in {emits'[i] : i \in 1..Len(emits')}]_vars

\* what a room-info snapshot reports of a room
Snapshot(room) ==
  [viewerCount |-> Cardinality(room.viewers),
   isHostStreaming |-> room.isStreaming,
   isViewerStreaming |-> room.isViewerStreaming,
   approvedViewerIds |-> room.approvedViewerIds]

\* C20: every step that creates a room or changes what room-info reports of
\* it (viewer count, streaming flag, streaming and approved viewer ids)
\* broadcasts a room-info with the new values to the room, so that the most
\* recent room-info of an existing room equals its state; in particular an
\* accepted respond-stream-request does.  (Stated for rooms whose approved
\* ids are viewers and whose host is not a viewer.)
RoomInfoFollowsState ==
  [][\A r \in RoomIds :
       (/\ r \in DOMAIN rooms'
        /\ rooms'[r].approvedViewerIds \subseteq rooms'[r].viewers
        /\ rooms'[r].hostId \notin rooms'[r].viewers
        /\ r \in DOMAIN rooms => Snapshot(rooms'[r]) # Snapshot(rooms[r]))
       => \E i \in 1..Len(emits') :
            /\ emits'[i].event = "room-info"
            /\ emits'[i].to = joined'[r]
            /\ emits'[i].data.hostId = rooms'[r].hostId
            /\ emits'[i].data.viewerCount = Cardinality(rooms'[r].viewers)
            /\ emits'[i].data.isHostStreaming = rooms'[r].isStreaming
            /\ emits'[i].data.isViewerStreaming = rooms'[r].isViewerStreaming
            /\ emits'[i].data.approvedViewerIds = rooms'[r].approvedViewerIds]_vars

\* s is the host or a viewer of some room
InSomeRoom(s) ==
  \E r \in Rooms : rooms[r].hostId = s \/ s \in rooms[r].viewers

\* C21: a chat-message, reaction or send-message of a connection that is
\* neither host nor viewer of any room is appended to no room's log and
\* broadcast to no one.
OutsidersCannotChat ==
  [][\A s \in SocketIds :
       (/\ ~InSomeRoom(s)
        /\ \E m \in {Blank, 1} :
             \/ SendMessage(s, m)
             \/ \E r \in RoomIds : ChatMessage(s, r, m) \/ Reaction(s, r, m))
       => (/\ emits' = <<>>
           /\ \A r \in Rooms : /\ r \in DOMAIN rooms'
                                /\ rooms'[r].messages = rooms[r].messages)]_vars

\* C22: in every reachable state a connection that has disconnected is in
\* no existing room's viewers, approved or streaming set.  (Stated for
\* rooms whose approved ids are viewers and whose host is not a viewer.)
DepartedAreNowhere ==
  \A s \in disconnected \cap SocketIds : \A r \in Rooms :
    (/\ rooms[r].approvedViewerIds \subseteq rooms[r].viewers
     /\ rooms[r].hostId \notin rooms[r].viewers)
    => (/\ s \notin rooms[r].viewers
        /\ s \notin rooms[r].approvedViewerIds
        /\ s \notin rooms[r].isViewerStreaming)


\* C23: once the host has revoked a viewer with stop-viewer-stream, or the
\* viewer has left the room, that id is never again in the room's approved
\* or streaming set while the room exists.  (Stated for rooms whose approved
\* ids are viewers and whose host is not a viewer.)
RevokedAndLeftAreTerminal ==
  \A p \in gone :
    (/\ p[1] \in Rooms
     /\ rooms[p[1]].approvedViewerIds \subseteq rooms[p[1]].viewers
     /\ rooms[p[1]].hostId \notin rooms[p[1]].viewers)
    => /\ p[2] \notin rooms[p[1]].approvedViewerIds
       /\ p[2] \notin rooms[p[1]].isViewerStreaming

\* C23 (amended): a stop-viewer-stream of the host and a viewer's own leave
\* take the id out of the room's approved and streaming sets; afterwards an
\* id enters the approved set only by an accepted respond-stream-request of
\* the room's host, and the streaming set only by its own viewer-streaming
\* while it is approved.
RevokedUntilApprovedAgain ==
  [][/\ \A h \in SocketIds, v \in Targets :
          (HostsItsRoom(h) /\ StopViewerStream(h, v))
          => /\ v \notin rooms'[socketToRoom[h]].approvedViewerIds
             /\ v \notin rooms'[socketToRoom[h]].isViewerStreaming
     /\ \A s \in SocketIds :
          (/\ s \in DOMAIN socketToRoom
           /\ socketToRoom[s] \in Rooms
           /\ rooms[socketToRoom[s]].hostId # s
           /\ LeaveRoom(s) \/ Disconnect(s))
          => /\ s \notin rooms'[socketToRoom[s]].approvedViewerIds
             /\ s \notin rooms'[socketToRoom[s]].isViewerStreaming
     /\ \A r \in Rooms \cap DOMAIN rooms', v \in Targets :
          /\ (/\ v \notin rooms[r].approvedViewerIds
               /\ v \in rooms'[r].approvedViewerIds)
              => RespondStreamRequest(rooms[r].hostId, v, TRUE)
          /\ (/\ v \notin rooms[r].isViewerStreaming
               /\ v \in rooms'[r].isViewerStreaming)
              => (v \in rooms[r].approvedViewerIds /\ ViewerStreaming(v, r))
    ]_vars

\* a viewer the host revoked is approved again, in a room whose approved ids
\* are viewers: the host has just accepted a new request of it
ApprovedAgain ==
  \E p \in gone :
    /\ p[1] \in Rooms
    /\ rooms[p[1]].approvedViewerIds \subseteq rooms[p[1]].viewers
    /\ p[2] \in rooms[p[1]].approvedViewerIds
    /\ Received(emits, p[2], "stream-request-response") = 1

\* the handler that just ran emitted at least one event to socket s
ToldCaller(s) == \E i \in 1..Len(emits') : s \in emits'[i].to

\* C24: a host-streaming, respond-stream-request or stop-viewer-stream sent
\* by a connection that is not the host of the existing room it names (or is
\* in), and a viewer-streaming sent by a viewer the room has not approved,
\* each emit an event back to the caller.
RejectionsAreAnnounced ==
  [][\A s \in sockets :
       /\ \A r \in Rooms :
            /\ (rooms[r].hostId # s /\ HostStreaming(s, r)) => ToldCaller(s)
            /\ (/\ s \in rooms[r].viewers \ {rooms[r].hostId}
                 /\ s \notin rooms[r].approvedViewerIds
                 /\ ViewerStreaming(s, r))
                => ToldCaller(s)
       /\ (/\ s \in DOMAIN socketToRoom
           /\ socketToRoom[s] \in Rooms
           /\ rooms[socketToRoom[s]].hostId # s)
          => \A v \in rooms[socketToRoom[s]].viewers :
               /\ (\E a \in BOOLEAN : RespondStreamRequest(s, v, a))
                   => ToldCaller(s)
               /\ StopViewerStream(s, v) => ToldCaller(s)
    ]_vars

\* C25: in every reachable state, if socketToRoom assigns room R to socket
\* s, then room R exists and s is R's host or one of R's viewers.
MappingNamesOwnRoom ==
  \A s \in DOMAIN socketToRoom :
    /\ socketToRoom[s] \in Rooms
    /\ \/ rooms[socketToRoom[s]].hostId = s
       \/ s \in rooms[socketToRoom[s]].viewers

\* a host has just closed its room, and a live connection that was in a room
\* and never asked to leave has no socketToRoom entry any more
ClosedRoomLeftNoMapping ==
  /\ Emitted(emits, "host-left") = 1
  /\ \E s \in sockets : left[s] = "no" /\ s \notin DOMAIN socketToRoom

\* C26: in every reachable state a live connection is the host of at most
\* one room, a viewer of at most one room, never the host of one room while a
\* viewer of another, and socketToRoom names the room it is a viewer of.
OneRoomPerConnection ==
  \A s \in sockets :
    LET hosted == {r \in Rooms : rooms[r].hostId = s}
        viewed == {r \in Rooms : s \in rooms[r].viewers}
    IN /\ Cardinality(hosted) <= 1
       /\ Cardinality(viewed) <= 1
       /\ \A h \in hosted, v \in viewed : h = v
       /\ \A v \in viewed : s \in DOMAIN socketToRoom /\ socketToRoom[s] = v

\* C27: in every reachable state the broadcast group of a room id holds
\* exactly the host and the current viewers of the existing room with that
\* id (those of them that are live connections), and is empty when no such
\* room exists.
GroupIsRoomMembers ==
  \A r \in RoomIds :
    joined[r] = IF r \in Rooms
                THEN ({rooms[r].hostId} \cup rooms[r].viewers) \cap sockets
                ELSE {}
====
